---------------------------- MODULE Spec2Model ----------------------------
(***************************************************************************)
(* Context-menu composition and command dispatch of the graphics scene     *)
(* (src/main.cpp): the command family, the menu strategies and their       *)
(* decorators, the strategy factory (registry) and the scene's             *)
(* contextMenuEvent handler.                                               *)
(*                                                                         *)
(* The menu labels of the source are Chinese string literals; the module   *)
(* writes them in ASCII:                                                   *)
(*   Copy / Cut / Paste            BaseMenuDecorator, PasteOnlyMenuDecorator*)
(*   EditText / ChangeFont         TextItemMenuStrategy                    *)
(*   AddSlide / Layout             BackgroundMenuStrategy                  *)
(*   OnlySpecial                   NoBaseMenuStrategy                      *)
(*   ChangeColor / ChangeSize / ShapeProps / Rotate / Scale                *)
(*                                 CircleMenuStrategy                      *)
(***************************************************************************)
EXTENDS Naturals, Sequences, FiniteSets, TLC

VARIABLES
    pc,             \* position of the event thread: "startup", "idle",
                    \* "exec_item" (blocked in menu->exec, line 399),
                    \* "exec_default" (blocked in menu->exec, line 410),
                    \* "fn" / "built" (a strategy or a menu builder run alone)
    creators,       \* MenuStrategyFactory::creators (QMap type -> creator)
    nreg,           \* number of single registerCreator calls made so far
    clipboard,      \* QApplication::clipboard()->text()
    item,           \* itemAt(scenePos) of the current / last request
    strategy,       \* the strategy the handler resolved (<<>> = nullptr)
    ctx,            \* the CommandContext of the current dispatch
    menu,           \* the built QMenu: its actions, in order
    clipAtBuild,    \* history: clipboard text when the menu was built
    presented,      \* history: number of menus exec'ed in this request
    defaultHandled, \* history: QGraphicsScene::contextMenuEvent was called
    outcome,        \* history: "none", "menu shown", "no menu"
    chosen,         \* history: path of the triggered entry (<<>> = none)
    triggered,      \* history: execute() calls made by triggered lambdas
    effects,        \* history: leaf commands run, in order, with their ctx
    added,          \* history: addCommandAction calls of a menu builder
    depth,          \* contextMenuEvent invocations on the event thread's stack
    liveCtx,        \* CommandContext objects alive (make_shared, not yet freed)
    regs,           \* history: registerCreator calls of a registry run alone
    asked,          \* history: identifier of the last create call ("none")
    composite,      \* a CompositeCommand built and run alone
    children,       \* history: the children handed to composite, in order
    last,           \* history: the menu of the latest dispatch that returned
    selectedItems,  \* SelectionContext::selectedItems (unnamed/part_001)
    lastTyped       \* history: the BaseCustomItem of the latest request on one

vars == <<pc, creators, nreg, clipboard, item, strategy, ctx, menu,
          clipAtBuild, presented, defaultHandled, outcome, chosen,
          triggered, effects, added, depth, liveCtx, regs, asked, composite,
          children, last, selectedItems, lastTyped>>

\* the variables of the event thread's stack and heap accounting
heapVars == <<depth, liveCtx>>

\* the histories only a run that records its dispatches changes
recordVars == <<last, selectedItems, lastTyped>>

\* the variables only a registry or a composite run alone changes
aloneVars == <<regs, asked, composite, children, recordVars>>

----------------------------------------------------------------------------
(* Bounds *)

MaxRegister == 2    \* single registerCreator calls during startup
MaxAdd == 2         \* addCommandAction calls of a menu builder run alone
MaxChildren == 3    \* children handed to a CompositeCommand run alone

----------------------------------------------------------------------------
(* Scene items and their type identifiers *)

NoItem == "nullptr"                 \* itemAt found nothing
PlainItems == {"plain"}             \* a QGraphicsItem that is no BaseCustomItem
BaseItems == {"item1", "item2", "item3"}
Targets == {NoItem} \cup PlainItems \cup BaseItems

\* dynamic_cast<BaseCustomItem*>(item) succeeds
IsBaseCustomItem(it) == it \in BaseItems

\* mutant: CustomItem3 does not override objectType and answers as its base
\* class CustomItem does
objectTypeOfBaseClass(it) ==
    CASE it = "item1" -> "TextItem"
      [] it = "item2" -> "Special"
      [] it = "item3" -> "TextItem"

\* BaseCustomItem::objectType and its overrides (lines 59, 78, 97)
objectType(it) ==
    CASE it = "item1" -> "TextItem"
      [] it = "item2" -> "Special"
      [] it = "item3" -> "Circle"

TypeIds == {"TextItem", "Background", "Special", "Circle"}

\* the type identifier a request's target exposes ("none": no target, or
\* one that is no BaseCustomItem)
KeyOf(it) == IF IsBaseCustomItem(it) THEN objectType(it) ELSE "none"

\* the record kept of a dispatch that returned; NoDispatch before the first
DispatchRecord(it, clip, m) == [key |-> KeyOf(it), clip |-> clip, menu |-> m]
NoDispatch == [key |-> "nothing", clip |-> "", menu |-> <<>>]

Clips == {"", "text"}

----------------------------------------------------------------------------
(* CommandContext *)

\* std::make_shared<CommandContext>(): every member null, extras empty
NewContext == [scene |-> "nullptr", extras |-> {}]

\* ctx of the item branch: scene = this, extras["selection"] = [baseItem]
ItemContext(it) == [scene |-> "this", extras |-> {<<"selection", <<it>>>>}]

\* extras.value(key).value<QList<BaseCustomItem*>>(): empty list when absent
ExtrasValue(c, key) ==
    IF \E kv \in c.extras : kv[1] = key
    THEN (CHOOSE kv \in c.extras : kv[1] = key)[2]
    ELSE <<>>

Selection(c) == ExtrasValue(c, "selection")

\* placeholder in entries that carry no lambda (separators, sub-menus)
NoCtx == [scene |-> "none", extras |-> {}]

Contexts == {NewContext} \cup {ItemContext(it) : it \in BaseItems}

----------------------------------------------------------------------------
(* Commands *)

Cmd(cls) == [cls |-> cls, commands |-> <<>>, visible |-> TRUE, enable |-> TRUE]

NullPtr == Cmd("nullptr")               \* an empty shared_ptr<ICommand>
CopyCommand == Cmd("CopyCommand")
PasteCommand == Cmd("PasteCommand")
NullCommand == Cmd("NullCommand")
CustomCommand1 == Cmd("CustomCommand1")
CustomCommand2 == Cmd("CustomCommand2")
CompositeCommand == Cmd("CompositeCommand")

\* an ICommand subclass that overrides the virtual isVisible / isEnable
UserCommand(v, e) ==
    [cls |-> "UserCommand", commands |-> <<>>, visible |-> v, enable |-> e]

\* CompositeCommand::addCommand
addCommand(combo, cmd) ==
    IF cmd # NullPtr
    THEN [combo EXCEPT !.commands = Append(@, cmd)]
    ELSE combo

\* mutant: the loop over the initializer list ends at the first null command
RECURSIVE combineIntoStopAtNull(_, _)
combineIntoStopAtNull(combo, list) ==
    IF list = <<>> \/ Head(list) = NullPtr THEN combo
    ELSE combineIntoStopAtNull(addCommand(combo, Head(list)), Tail(list))

\* the loop of combineCommands (lines 145-147)
RECURSIVE combineInto(_, _)
combineInto(combo, list) ==
    IF list = <<>> THEN combo
    ELSE combineInto(addCommand(combo, Head(list)), Tail(list))

\* CommandUtils::combineCommands
combineCommands(list) == combineInto(CompositeCommand, list)

\* ICommand::isVisible and its overrides
isVisible(cmd, c) ==
    IF cmd.cls = "UserCommand" THEN cmd.visible ELSE TRUE

\* mutant: the overrides are not reached, every command is enabled
isEnableBase(cmd, c, clip) == TRUE

\* mutant: CompositeCommand overrides isEnable and answers for its children
isEnableOfChildren(cmd, c, clip) ==
    LET leaf(k) == CASE k.cls = "PasteCommand" -> clip # ""
                     [] k.cls = "UserCommand" -> k.enable
                     [] OTHER -> TRUE
    IN  IF cmd.cls = "CompositeCommand"
        THEN \A i \in DOMAIN cmd.commands : leaf(cmd.commands[i])
        ELSE leaf(cmd)

\* ICommand::isEnable and its overrides (PasteCommand::isEnable)
isEnable(cmd, c, clip) ==
    CASE cmd.cls = "PasteCommand" -> clip # ""
      [] cmd.cls = "UserCommand" -> cmd.enable
      [] OTHER -> TRUE

\* execute(ctx): the leaf commands that run, in order, each with its ctx
RECURSIVE execute(_, _)
RECURSIVE executeAll(_, _)

\* mutant: the children run last to first
RECURSIVE executeAllReversed(_, _)
executeAllReversed(list, c) ==
    IF list = <<>> THEN <<>>
    ELSE executeAllReversed(Tail(list), c)
         \o (IF Head(list) # NullPtr THEN execute(Head(list), c) ELSE <<>>)

\* the loop of CompositeCommand::execute (lines 132-134)
executeAll(list, c) ==
    IF list = <<>> THEN <<>>
    ELSE (IF Head(list) # NullPtr THEN execute(Head(list), c) ELSE <<>>)
         \o executeAll(Tail(list), c)

execute(cmd, c) ==
    IF cmd.cls = "CompositeCommand"
    THEN executeAll(cmd.commands, c)
    ELSE <<[cls |-> cmd.cls, ctx |-> c]>>

----------------------------------------------------------------------------
(* Menus: a QMenu is the sequence of its actions *)

NewQMenu == <<>>

Separator ==
    [kind |-> "separator", text |-> "", enabled |-> TRUE,
     cmd |-> NullPtr, ctx |-> NoCtx, sub |-> <<>>]

addSeparator(m) == Append(m, Separator)

addMenu(m, title, subMenu) ==
    Append(m, [kind |-> "menu", text |-> title, enabled |-> TRUE,
               cmd |-> NullPtr, ctx |-> NoCtx, sub |-> subMenu])

\* mutant: the action is left as addAction made it, enabled
ActionNoSetEnabled(text, cmd, c, clip) ==
    [kind |-> "action", text |-> text, enabled |-> TRUE,
     cmd |-> cmd, ctx |-> c, sub |-> <<>>]

\* the QAction of addCommandAction with its connected lambda [cmd, ctx]
Action(text, cmd, c, clip) ==
    [kind |-> "action", text |-> text, enabled |-> isEnable(cmd, c, clip),
     cmd |-> cmd, ctx |-> c, sub |-> <<>>]

\* mutant: a command that is not visible gets a disabled entry
addCommandActionDisableHidden(m, text, cmd, c, clip) ==
    IF cmd = NullPtr
    THEN m
    ELSE Append(m, [Action(text, cmd, c, clip) EXCEPT
                       !.enabled = @ /\ isVisible(cmd, c)])

\* MenuStrategy::addCommandAction(menu, text, cmd, ctx)
addCommandAction(m, text, cmd, c, clip) ==
    IF cmd = NullPtr \/ ~isVisible(cmd, c)
    THEN m
    ELSE Append(m, Action(text, cmd, c, clip))

\* MenuStrategy::addCommandAction(menu, text, ctx)
addNullCommandAction(m, text, c, clip) ==
    addCommandAction(m, text, NullCommand, c, clip)

----------------------------------------------------------------------------
(* Strategies: a strategy is the sequence of class names of its decoration *)
(* chain, outermost first; <<>> is a null shared_ptr<MenuStrategy>.        *)

NoStrategy == <<>>

Decorators == {"BaseMenuDecorator", "PasteOnlyMenuDecorator"}
Roots == {"TextItemMenuStrategy", "BackgroundMenuStrategy",
          "NoBaseMenuStrategy", "CircleMenuStrategy"}

TextItemMenuStrategy_createMenu(c, clip) ==
    LET m1 == addNullCommandAction(NewQMenu, "EditText", c, clip)
    IN  addNullCommandAction(m1, "ChangeFont", c, clip)

BackgroundMenuStrategy_createMenu(c, clip) ==
    LET m1 == addNullCommandAction(NewQMenu, "AddSlide", c, clip)
    IN  addNullCommandAction(m1, "Layout", c, clip)

\* mutant: the strategy adds a separator and the shared Copy, Cut and Paste
\* entries after its own entry
NoBaseMenuStrategy_createMenuWithShared(c, clip) ==
    LET combo == addCommand(addCommand(CompositeCommand, CustomCommand1),
                            CustomCommand2)
        m1 == addCommandAction(NewQMenu, "OnlySpecial", combo, c, clip)
        m2 == addCommandAction(addSeparator(m1), "Copy", CopyCommand, c, clip)
        m3 == addNullCommandAction(m2, "Cut", c, clip)
    IN  addCommandAction(m3, "Paste", PasteCommand, c, clip)

\* NoBaseMenuStrategy::createMenu
NoBaseMenuStrategy_createMenu(c, clip) ==
    LET combo == addCommand(addCommand(CompositeCommand, CustomCommand1),
                            CustomCommand2)
    IN  addCommandAction(NewQMenu, "OnlySpecial", combo, c, clip)

\* mutant: the sub-menu is added to the menu before the two entries
CircleMenuStrategy_createMenuSubFirst(c, clip) ==
    LET combo == combineCommands(<<CustomCommand1, CustomCommand2>>)
        s1 == addCommandAction(NewQMenu, "Rotate", combo, c, clip)
        s2 == addNullCommandAction(s1, "Scale", c, clip)
        m0 == addMenu(NewQMenu, "ShapeProps", s2)
        m1 == addNullCommandAction(m0, "ChangeColor", c, clip)
    IN  addNullCommandAction(m1, "ChangeSize", c, clip)

CircleMenuStrategy_createMenu(c, clip) ==
    LET m1 == addNullCommandAction(NewQMenu, "ChangeColor", c, clip)
        m2 == addNullCommandAction(m1, "ChangeSize", c, clip)
        combo == combineCommands(<<CustomCommand1, CustomCommand2>>)
        s1 == addCommandAction(NewQMenu, "Rotate", combo, c, clip)
        s2 == addNullCommandAction(s1, "Scale", c, clip)
    IN  addMenu(m2, "ShapeProps", s2)

RECURSIVE createMenu(_, _, _)

\* mutant: a decorator starts from a new QMenu whatever it wraps
WrappedMenuNew(wrapped, c, clip) == NewQMenu

\* the menu a decorator starts from: the wrapped strategy's, or a new QMenu
WrappedMenu(wrapped, c, clip) ==
    IF wrapped # NoStrategy THEN createMenu(wrapped, c, clip) ELSE NewQMenu

\* mutant: the decorator builds its shared section first and puts the
\* wrapped strategy's entries after it
BaseMenuDecorator_createMenuSharedFirst(wrapped, c, clip) ==
    LET m1 == addCommandAction(NewQMenu, "Copy", CopyCommand, c, clip)
        m2 == addNullCommandAction(m1, "Cut", c, clip)
        m3 == addCommandAction(m2, "Paste", PasteCommand, c, clip)
    IN  addSeparator(m3) \o WrappedMenu(wrapped, c, clip)

BaseMenuDecorator_createMenu(wrapped, c, clip) ==
    LET m0 == addSeparator(WrappedMenu(wrapped, c, clip))
        m1 == addCommandAction(m0, "Copy", CopyCommand, c, clip)
        m2 == addNullCommandAction(m1, "Cut", c, clip)
    IN  addCommandAction(m2, "Paste", PasteCommand, c, clip)

PasteOnlyMenuDecorator_createMenu(wrapped, c, clip) ==
    LET m0 == addSeparator(WrappedMenu(wrapped, c, clip))
    IN  addNullCommandAction(m0, "Paste", c, clip)

\* virtual MenuStrategy::createMenu, dispatched on the strategy's class
createMenu(s, c, clip) ==
    CASE Head(s) = "BaseMenuDecorator" ->
            BaseMenuDecorator_createMenu(Tail(s), c, clip)
      [] Head(s) = "PasteOnlyMenuDecorator" ->
            PasteOnlyMenuDecorator_createMenu(Tail(s), c, clip)
      [] Head(s) = "TextItemMenuStrategy" ->
            TextItemMenuStrategy_createMenu(c, clip)
      [] Head(s) = "BackgroundMenuStrategy" ->
            BackgroundMenuStrategy_createMenu(c, clip)
      [] Head(s) = "NoBaseMenuStrategy" ->
            NoBaseMenuStrategy_createMenu(c, clip)
      [] Head(s) = "CircleMenuStrategy" ->
            CircleMenuStrategy_createMenu(c, clip)

\* the decoration chains a strategy can be built as: a root, or one or two
\* decorators around a root or around nothing
Wrappable == {<<r>> : r \in Roots} \cup {NoStrategy}
Chains ==
    {<<r>> : r \in Roots}
    \cup {<<d>> \o w : d \in Decorators, w \in Wrappable}
    \cup {<<d2, d1>> \o w : d2 \in Decorators, d1 \in Decorators,
                            w \in Wrappable}

----------------------------------------------------------------------------
(* MenuStrategyFactory *)

\* the four creators registerMenuStrategies registers
TextItemCreator == <<"BaseMenuDecorator", "TextItemMenuStrategy">>
BackgroundCreator == <<"PasteOnlyMenuDecorator", "BackgroundMenuStrategy">>
SpecialCreator == <<"NoBaseMenuStrategy">>
CircleCreator == <<"BaseMenuDecorator", "CircleMenuStrategy">>

ShippedCreators ==
    {TextItemCreator, BackgroundCreator, SpecialCreator, CircleCreator}

EmptyMap == [t \in {} |-> NoStrategy]

\* mutant: a type that is already registered keeps its first creator
registerCreatorKeepFirst(map, type, creator) ==
    [t \in DOMAIN map \cup {type} |->
        IF t \in DOMAIN map THEN map[t] ELSE creator]

\* MenuStrategyFactory::registerCreator: creators[type] = creator
registerCreator(map, type, creator) ==
    [t \in DOMAIN map \cup {type} |-> IF t = type THEN creator ELSE map[t]]

\* mutant: an unregistered type gets the strategy registered for Background
createWithFallback(map, type) ==
    IF type \in DOMAIN map THEN map[type]
    ELSE IF "Background" \in DOMAIN map THEN map["Background"]
    ELSE NoStrategy

\* MenuStrategyFactory::create
create(map, type) ==
    IF type \in DOMAIN map THEN map[type] ELSE NoStrategy

\* mutant: create reads creators[type] without contains(type) before it, and
\* QMap::operator[] inserts an empty creator for a missing key
creatorsAfterCreateInserting(map, type) ==
    [t \in DOMAIN map \cup {type} |->
        IF t \in DOMAIN map THEN map[t] ELSE NoStrategy]

\* MenuStrategyFactory::creators after create(type): the map is indexed
\* behind creators.contains(type) only (line 359), so nothing is inserted
creatorsAfterCreate(map, type) == map

\* mutant: the pass registers no strategy for Background
registerMenuStrategiesNoBackground(map) ==
    LET r1 == registerCreator(map, "TextItem", TextItemCreator)
        r3 == registerCreator(r1, "Special", SpecialCreator)
    IN  registerCreator(r3, "Circle", CircleCreator)

\* registerMenuStrategies()
registerMenuStrategies(map) ==
    LET r1 == registerCreator(map, "TextItem", TextItemCreator)
        r2 == registerCreator(r1, "Background", BackgroundCreator)
        r3 == registerCreator(r2, "Special", SpecialCreator)
    IN  registerCreator(r3, "Circle", CircleCreator)

----------------------------------------------------------------------------
(* CustomScene::contextMenuEvent and the event thread *)

\* mutant: the fallback lookup uses another registered key
FallbackKeyTextItem == "TextItem"

\* the key of the fallback lookup (line 406)
FallbackKey == "Background"

\* mutant: the item branch lacks its return and runs on into the fallback
ReturnsAfterItemMenuMissing == FALSE

\* whether the item branch returns once its menu has closed (line 401)
ReturnsAfterItemMenu == TRUE

\* mutant: a Circle object, whose class derives from CustomItem, falls back
\* to the strategy of its base class when its own identifier is unregistered
ItemStrategyInherited(map, it) ==
    IF it # NoItem /\ IsBaseCustomItem(it)
    THEN IF objectType(it) = "Circle" /\ "Circle" \notin DOMAIN map
         THEN create(map, "TextItem")
         ELSE create(map, objectType(it))
    ELSE NoStrategy

\* mutant: a request that finds no typed object reuses the strategy of the
\* object of the request before it
ItemStrategyRemembered(map, it) ==
    IF it # NoItem /\ IsBaseCustomItem(it)
    THEN create(map, objectType(it))
    ELSE IF IsBaseCustomItem(item)
         THEN create(map, objectType(item))
         ELSE NoStrategy

\* mutant: an item that is no BaseCustomItem is looked up as a TextItem
ItemStrategyUntyped(map, it) ==
    IF it = NoItem
    THEN NoStrategy
    ELSE IF IsBaseCustomItem(it)
         THEN create(map, objectType(it))
         ELSE create(map, "TextItem")

\* lines 388-393: the strategy the item branch finds (NoStrategy = none)
ItemStrategy(map, it) ==
    IF it # NoItem /\ IsBaseCustomItem(it)
    THEN create(map, objectType(it))
    ELSE NoStrategy

\* mutant: the item branch forgets to store the selection
ItemBranchContextNoSelection(it) == [scene |-> "this", extras |-> {}]

\* lines 395-397: the context of the item branch
ItemBranchContext(it) == ItemContext(it)

\* mutant: the fallback branch stores the scene in its context, as the item
\* branch does
FallbackContextWithScene == [scene |-> "this", extras |-> {}]

\* line 408: the context of the fallback branch
FallbackContext == NewContext

\* mutant: the menu asks each command's isEnable when the user points at its
\* entry, with the clipboard as it is then
TriggerableLazy(m) ==
    {<<i>> : i \in {k \in DOMAIN m :
                       /\ m[k].kind = "action"
                       /\ isEnable(m[k].cmd, m[k].ctx, clipboard)}}
    \cup UNION {{<<i, j>> : j \in {k \in DOMAIN m[i].sub :
                                     /\ m[i].sub[k].kind = "action"
                                     /\ isEnable(m[i].sub[k].cmd,
                                                 m[i].sub[k].ctx, clipboard)}}
                : i \in {k \in DOMAIN m : m[k].kind = "menu"}}

\* the entries a user can trigger: enabled actions of the menu and of its
\* enabled sub-menus (QMenu refuses disabled actions and separators)
Triggerable(m) ==
    {<<i>> : i \in {k \in DOMAIN m : m[k].kind = "action" /\ m[k].enabled}}
    \cup UNION {{<<i, j>> : j \in {k \in DOMAIN m[i].sub :
                                     /\ m[i].sub[k].kind = "action"
                                     /\ m[i].sub[k].enabled}}
                : i \in {k \in DOMAIN m : m[k].kind = "menu" /\ m[k].enabled}}

EntryAt(m, path) ==
    IF Len(path) = 1 THEN m[path[1]] ELSE m[path[1]].sub[path[2]]

\* mutant: the action is connected twice, so its lambda runs twice
LambdaTwice(entry) ==
    <<[cmd |-> entry.cmd, ctx |-> entry.ctx],
      [cmd |-> entry.cmd, ctx |-> entry.ctx]>>

\* the lambda connected to QAction::triggered: cmd->execute(ctx)
Lambda(entry) == <<[cmd |-> entry.cmd, ctx |-> entry.ctx]>>

RECURSIVE RunCalls(_)
RunCalls(calls) ==
    IF calls = <<>> THEN <<>>
    ELSE execute(Head(calls).cmd, Head(calls).ctx) \o RunCalls(Tail(calls))

\* lines 406-415: the fallback lookup; its menu, or the default handling
Fallback(map, clip) ==
    LET defaultStrategy == create(map, FallbackKey)
    IN  IF defaultStrategy # NoStrategy
        THEN [at |-> "exec_default", strategy |-> defaultStrategy,
              ctx |-> FallbackContext,
              menu |-> createMenu(defaultStrategy, FallbackContext, clip)]
        ELSE [at |-> "default", strategy |-> NoStrategy, ctx |-> NoCtx,
              menu |-> NewQMenu]

\* lines 380-415 up to the blocking menu->exec: where the handler goes for
\* the item under the point, with the strategy, context and menu it builds
Dispatch(map, it, clip) ==
    LET s == ItemStrategy(map, it)
    IN  IF s # NoStrategy
        THEN [at |-> "exec_item", strategy |-> s,
              ctx |-> ItemBranchContext(it),
              menu |-> createMenu(s, ItemBranchContext(it), clip)]
        ELSE Fallback(map, clip)

\* MenuStrategyFactory::creators after the handler's lookups: create for the
\* item's type (line 393) and, when that found nothing, for the fallback
\* key (line 406)
creatorsAfterDispatch(map, it) ==
    LET m1 == IF it # NoItem /\ IsBaseCustomItem(it)
              THEN creatorsAfterCreate(map, objectType(it))
              ELSE map
    IN  IF ItemStrategy(map, it) # NoStrategy
        THEN m1
        ELSE creatorsAfterCreate(m1, FallbackKey)

\* the handler reaches `d` having presented n menus in this request: it
\* blocks in menu->exec, or calls QGraphicsScene::contextMenuEvent and returns
Proceed(d, n) ==
    /\ strategy' = d.strategy
    /\ ctx' = d.ctx
    /\ menu' = d.menu
    /\ IF d.at = "default"
       THEN /\ pc' = "idle"
            /\ clipAtBuild' = ""
            /\ presented' = n
            /\ defaultHandled' = TRUE
            /\ outcome' = IF n = 0 THEN "no menu" ELSE outcome
       ELSE /\ pc' = d.at
            /\ clipAtBuild' = clipboard
            /\ presented' = n + 1
            /\ defaultHandled' = FALSE
            /\ outcome' = "menu shown"

\* the handler, entered k deep with n contexts alive, reaches `d`: a menu
\* branch made a CommandContext with make_shared (lines 395, 408) and stays
\* on the stack in menu->exec; the default branch allocates nothing and
\* returns (line 415)
Allocate(d, k, n) ==
    IF d.at = "default"
    THEN depth' = k - 1 /\ liveCtx' = n
    ELSE depth' = k /\ liveCtx' = n + 1

\* mutant: a request is delivered to the scene while a menu is presented
EventThreadFreeInExec == pc \in {"idle", "exec_item", "exec_default"}

\* lines 399, 410 and main.cpp:472: the event thread takes a request from
\* app.exec()'s loop only; inside the handler it is blocked in menu->exec
EventThreadFree == pc = "idle"

\* mutant: the handler returns without `delete menu`
DeletesMenuMissing == FALSE

\* lines 400, 411: `delete menu` destroys the menu, its actions and their
\* lambdas, which hold the last references to the CommandContext
DeletesMenu == TRUE

\* the scene receives a context-menu request whose point is over `it`
ContextMenuEvent(it) ==
    /\ EventThreadFree
    /\ item' = it
    /\ chosen' = <<>>
    /\ triggered' = <<>>
    /\ effects' = <<>>
    /\ Proceed(Dispatch(creators, it, clipboard), 0)
    /\ Allocate(Dispatch(creators, it, clipboard), depth + 1, liveCtx)
    /\ creators' = creatorsAfterDispatch(creators, it)
    /\ UNCHANGED <<nreg, clipboard, added>>
    /\ UNCHANGED aloneVars

InExec == pc \in {"exec_item", "exec_default"}
Closed(at) == IF at = "exec_item" THEN "closed_item" ELSE "closed_default"

\* the user selects an entry: its lambda runs, then exec returns
Trigger(path) ==
    /\ InExec
    /\ path \in Triggerable(menu)
    /\ chosen' = path
    /\ triggered' = Lambda(EntryAt(menu, path))
    /\ effects' = RunCalls(triggered')
    /\ pc' = Closed(pc)
    /\ UNCHANGED <<creators, nreg, clipboard, item, strategy, ctx, menu,
                   clipAtBuild, presented, defaultHandled, outcome, added>>
    /\ UNCHANGED heapVars
    /\ UNCHANGED aloneVars

\* the user dismisses the menu (click elsewhere, Escape): exec returns
Dismiss ==
    /\ InExec
    /\ pc' = Closed(pc)
    /\ UNCHANGED <<creators, nreg, clipboard, item, strategy, ctx, menu,
                   clipAtBuild, presented, defaultHandled, outcome, chosen,
                   triggered, effects, added>>
    /\ UNCHANGED heapVars
    /\ UNCHANGED aloneVars

\* lines 400-401 and 411-412: delete menu; return
HandlerReturns ==
    /\ pc \in {"closed_item", "closed_default"}
    /\ chosen' = <<>>
    /\ triggered' = <<>>
    /\ effects' = <<>>
    /\ IF pc = "closed_item" /\ ~ReturnsAfterItemMenu
       THEN /\ Proceed(Fallback(creators, clipboard), presented)
            /\ Allocate(Fallback(creators, clipboard), depth,
                        IF DeletesMenu THEN liveCtx - 1 ELSE liveCtx)
       ELSE /\ pc' = "idle"
            /\ strategy' = NoStrategy
            /\ ctx' = IF DeletesMenu THEN NoCtx ELSE ctx
            /\ menu' = IF DeletesMenu THEN NewQMenu ELSE menu
            /\ clipAtBuild' = ""
            /\ depth' = depth - 1
            /\ liveCtx' = IF DeletesMenu THEN liveCtx - 1 ELSE liveCtx
            /\ UNCHANGED <<presented, defaultHandled, outcome>>
    /\ UNCHANGED <<creators, nreg, clipboard, item, added>>

Return ==
    /\ HandlerReturns
    /\ UNCHANGED aloneVars

\* the system clipboard changes (this or another application)
ClipboardChange(text) ==
    /\ pc \in {"idle", "exec_item", "exec_default"}
    /\ text # clipboard
    /\ clipboard' = text
    /\ UNCHANGED <<pc, creators, nreg, item, strategy, ctx, menu, clipAtBuild,
                   presented, defaultHandled, outcome, chosen, triggered,
                   effects, added>>
    /\ UNCHANGED heapVars
    /\ UNCHANGED aloneVars

----------------------------------------------------------------------------
(* Startup: main() up to app.exec() *)

RegisterCreator(type, creator) ==
    /\ pc = "startup"
    /\ nreg < MaxRegister
    /\ creators' = registerCreator(creators, type, creator)
    /\ nreg' = nreg + 1
    /\ UNCHANGED <<pc, clipboard, item, strategy, ctx, menu, clipAtBuild,
                   presented, defaultHandled, outcome, chosen, triggered,
                   effects, added>>
    /\ UNCHANGED heapVars
    /\ UNCHANGED aloneVars

RegisterMenuStrategies ==
    /\ pc = "startup"
    /\ creators' = registerMenuStrategies(creators)
    /\ UNCHANGED <<pc, nreg, clipboard, item, strategy, ctx, menu,
                   clipAtBuild, presented, defaultHandled, outcome, chosen,
                   triggered, effects, added>>
    /\ UNCHANGED heapVars
    /\ UNCHANGED aloneVars

StartEventLoop ==
    /\ pc = "startup"
    /\ pc' = "idle"
    /\ UNCHANGED <<creators, nreg, clipboard, item, strategy, ctx, menu,
                   clipAtBuild, presented, defaultHandled, outcome, chosen,
                   triggered, effects, added>>
    /\ UNCHANGED heapVars
    /\ UNCHANGED aloneVars

Init ==
    /\ pc = "startup"
    /\ creators = EmptyMap
    /\ nreg = 0
    /\ clipboard \in Clips
    /\ item = NoItem
    /\ strategy = NoStrategy
    /\ ctx = NoCtx
    /\ menu = NewQMenu
    /\ clipAtBuild = ""
    /\ presented = 0
    /\ defaultHandled = FALSE
    /\ outcome = "none"
    /\ chosen = <<>>
    /\ triggered = <<>>
    /\ effects = <<>>
    /\ added = <<>>
    /\ depth = 0
    /\ liveCtx = 0
    /\ regs = <<>>
    /\ asked = "none"
    /\ composite = CompositeCommand
    /\ children = <<>>
    /\ last = NoDispatch
    /\ selectedItems = <<>>
    /\ lastTyped = NoItem

Next ==
    \/ \E t \in TypeIds, c \in ShippedCreators : RegisterCreator(t, c)
    \/ RegisterMenuStrategies
    \/ StartEventLoop
    \/ \E it \in Targets : ContextMenuEvent(it)
    \/ \E p \in Triggerable(menu) : Trigger(p)
    \/ Dismiss
    \/ Return
    \/ \E text \in Clips : ClipboardChange(text)

Spec == Init /\ [][Next]_vars

----------------------------------------------------------------------------
(* A strategy, or a menu builder, run alone on drawn arguments *)

\* the commands a builder may hand to addCommandAction
BuilderCommands ==
    {NullPtr, NullCommand, CopyCommand, PasteCommand,
     addCommand(CompositeCommand, PasteCommand),
     addCommand(CompositeCommand, UserCommand(FALSE, FALSE))}
    \cup {UserCommand(v, e) : v \in BOOLEAN, e \in BOOLEAN}

BuilderTexts == {"Paste", "Custom"}

InitMenu ==
    /\ pc = "fn"
    /\ strategy \in Chains \cup {NoStrategy}
    /\ ctx \in Contexts
    /\ clipboard \in Clips
    /\ creators = EmptyMap
    /\ nreg = 0
    /\ item = NoItem
    /\ menu = NewQMenu
    /\ clipAtBuild = ""
    /\ presented = 0
    /\ defaultHandled = FALSE
    /\ outcome = "none"
    /\ chosen = <<>>
    /\ triggered = <<>>
    /\ effects = <<>>
    /\ added = <<>>
    /\ depth = 0
    /\ liveCtx = 0
    /\ regs = <<>>
    /\ asked = "none"
    /\ composite = CompositeCommand
    /\ children = <<>>
    /\ last = NoDispatch
    /\ selectedItems = <<>>
    /\ lastTyped = NoItem

\* strategy->createMenu(nullptr, ctx)
FnCreateMenu ==
    /\ pc = "fn"
    /\ strategy # NoStrategy
    /\ menu' = createMenu(strategy, ctx, clipboard)
    /\ clipAtBuild' = clipboard
    /\ pc' = "built"
    /\ UNCHANGED <<creators, nreg, clipboard, item, strategy, ctx, presented,
                   defaultHandled, outcome, chosen, triggered, effects, added>>
    /\ UNCHANGED heapVars
    /\ UNCHANGED aloneVars

\* one addCommandAction(menu, text, cmd, ctx) call on a menu under construction
FnAddCommandAction(text, cmd) ==
    /\ pc = "fn"
    /\ strategy = NoStrategy
    /\ Len(added) < MaxAdd
    /\ menu' = addCommandAction(menu, text, cmd, ctx, clipboard)
    /\ added' = Append(added, [text |-> text, cmd |-> cmd, clip |-> clipboard,
                               given |-> TRUE])
    /\ UNCHANGED <<pc, creators, nreg, clipboard, item, strategy, ctx,
                   clipAtBuild, presented, defaultHandled, outcome, chosen,
                   triggered, effects>>
    /\ UNCHANGED heapVars
    /\ UNCHANGED aloneVars

\* one addCommandAction(menu, text, ctx) call, the overload without a command
FnAddNullCommandAction(text) ==
    /\ pc = "fn"
    /\ strategy = NoStrategy
    /\ Len(added) < MaxAdd
    /\ menu' = addNullCommandAction(menu, text, ctx, clipboard)
    /\ added' = Append(added, [text |-> text, cmd |-> NullCommand,
                               clip |-> clipboard, given |-> FALSE])
    /\ UNCHANGED <<pc, creators, nreg, clipboard, item, strategy, ctx,
                   clipAtBuild, presented, defaultHandled, outcome, chosen,
                   triggered, effects>>
    /\ UNCHANGED heapVars
    /\ UNCHANGED aloneVars

\* the clipboard changes between two addCommandAction calls
FnClipboardChange(text) ==
    /\ pc = "fn"
    /\ strategy = NoStrategy
    /\ text # clipboard
    /\ clipboard' = text
    /\ UNCHANGED <<pc, creators, nreg, item, strategy, ctx, menu, clipAtBuild,
                   presented, defaultHandled, outcome, chosen, triggered,
                   effects, added>>
    /\ UNCHANGED heapVars
    /\ UNCHANGED aloneVars

NextMenu ==
    \/ FnCreateMenu
    \/ \E text \in BuilderTexts, cmd \in BuilderCommands :
          FnAddCommandAction(text, cmd)
    \/ \E text \in BuilderTexts : FnAddNullCommandAction(text)
    \/ \E text \in Clips : FnClipboardChange(text)

SpecMenu == InitMenu /\ [][NextMenu]_vars

----------------------------------------------------------------------------
(* A CompositeCommand built and run alone on drawn children *)

\* the commands handed to the composite; NullPtr is a missing child
ChildPool == {NullPtr, CustomCommand1, CustomCommand2, PasteCommand}

ChildLists == UNION {[1..n -> ChildPool] : n \in 0..MaxChildren}

InitCommand ==
    /\ pc = "cmd"
    /\ ctx \in Contexts
    /\ clipboard \in Clips
    /\ creators = EmptyMap
    /\ nreg = 0
    /\ item = NoItem
    /\ strategy = NoStrategy
    /\ menu = NewQMenu
    /\ clipAtBuild = ""
    /\ presented = 0
    /\ defaultHandled = FALSE
    /\ outcome = "none"
    /\ chosen = <<>>
    /\ triggered = <<>>
    /\ effects = <<>>
    /\ added = <<>>
    /\ depth = 0
    /\ liveCtx = 0
    /\ regs = <<>>
    /\ asked = "none"
    /\ composite = CompositeCommand
    /\ children = <<>>
    /\ last = NoDispatch
    /\ selectedItems = <<>>
    /\ lastTyped = NoItem

\* composite->addCommand(cmd), as NoBaseMenuStrategy does (lines 305-307)
CmdAddCommand(cmd) ==
    /\ pc \in {"cmd", "adding"}
    /\ Len(children) < MaxChildren
    /\ composite' = addCommand(composite, cmd)
    /\ children' = Append(children, cmd)
    /\ pc' = "adding"
    /\ UNCHANGED <<creators, nreg, clipboard, item, strategy, ctx, menu,
                   clipAtBuild, presented, defaultHandled, outcome, chosen,
                   triggered, effects, added, regs, asked>>
    /\ UNCHANGED recordVars
    /\ UNCHANGED heapVars

\* CommandUtils::combineCommands({...}), as CircleMenuStrategy does (line 331)
CmdCombineCommands(list) ==
    /\ pc = "cmd"
    /\ composite' = combineCommands(list)
    /\ children' = list
    /\ pc' = "combined"
    /\ UNCHANGED <<creators, nreg, clipboard, item, strategy, ctx, menu,
                   clipAtBuild, presented, defaultHandled, outcome, chosen,
                   triggered, effects, added, regs, asked>>
    /\ UNCHANGED recordVars
    /\ UNCHANGED heapVars

\* composite->execute(ctx)
CmdExecute ==
    /\ pc \in {"cmd", "adding", "combined"}
    /\ triggered' = <<[cmd |-> composite, ctx |-> ctx]>>
    /\ effects' = execute(composite, ctx)
    /\ pc' = IF pc = "combined" THEN "ran_combined" ELSE "ran_added"
    /\ UNCHANGED <<creators, nreg, clipboard, item, strategy, ctx, menu,
                   clipAtBuild, presented, defaultHandled, outcome, chosen,
                   added>>
    /\ UNCHANGED heapVars
    /\ UNCHANGED aloneVars

NextCommand ==
    \/ \E cmd \in ChildPool : CmdAddCommand(cmd)
    \/ \E list \in ChildLists : CmdCombineCommands(list)
    \/ CmdExecute

SpecCommand == InitCommand /\ [][NextCommand]_vars

----------------------------------------------------------------------------
(* The MenuStrategyFactory run alone: registrations and lookups in any order *)

InitRegistry ==
    /\ pc = "registry"
    /\ creators = EmptyMap
    /\ nreg = 0
    /\ clipboard \in Clips
    /\ item = NoItem
    /\ strategy = NoStrategy
    /\ ctx = NoCtx
    /\ menu = NewQMenu
    /\ clipAtBuild = ""
    /\ presented = 0
    /\ defaultHandled = FALSE
    /\ outcome = "none"
    /\ chosen = <<>>
    /\ triggered = <<>>
    /\ effects = <<>>
    /\ added = <<>>
    /\ depth = 0
    /\ liveCtx = 0
    /\ regs = <<>>
    /\ asked = "none"
    /\ composite = CompositeCommand
    /\ children = <<>>
    /\ last = NoDispatch
    /\ selectedItems = <<>>
    /\ lastTyped = NoItem

\* MenuStrategyFactory::instance().registerCreator(type, creator)
RegRegisterCreator(type, creator) ==
    /\ pc = "registry"
    /\ nreg < MaxRegister
    /\ creators' = registerCreator(creators, type, creator)
    /\ nreg' = nreg + 1
    /\ regs' = Append(regs, [type |-> type, creator |-> creator])
    /\ asked' = "none"
    /\ strategy' = NoStrategy
    /\ UNCHANGED <<pc, clipboard, item, ctx, menu, clipAtBuild, presented,
                   defaultHandled, outcome, chosen, triggered, effects, added,
                   composite, children>>
    /\ UNCHANGED recordVars
    /\ UNCHANGED heapVars

\* MenuStrategyFactory::instance().create(type): the map is read behind
\* contains(type) only, so the lookup leaves it as it is
RegCreate(type) ==
    /\ pc = "registry"
    /\ strategy' = create(creators, type)
    /\ creators' = creatorsAfterCreate(creators, type)
    /\ asked' = type
    /\ UNCHANGED <<pc, nreg, clipboard, item, ctx, menu,
                   clipAtBuild, presented, defaultHandled, outcome, chosen,
                   triggered, effects, added, regs, composite, children>>
    /\ UNCHANGED recordVars
    /\ UNCHANGED heapVars

NextRegistry ==
    \/ \E t \in TypeIds, c \in ShippedCreators : RegRegisterCreator(t, c)
    \/ \E t \in TypeIds : RegCreate(t)

SpecRegistry == InitRegistry /\ [][NextRegistry]_vars

----------------------------------------------------------------------------
(* The program run with a record of the latest dispatch that returned *)

\* lines 400-401 and 411-412, recording the menu that was presented
ReturnRecorded ==
    /\ HandlerReturns
    /\ last' = DispatchRecord(item, clipAtBuild, menu)
    /\ UNCHANGED <<regs, asked, composite, children, selectedItems,
                   lastTyped>>

NextTwice ==
    \/ \E t \in TypeIds, c \in ShippedCreators : RegisterCreator(t, c)
    \/ RegisterMenuStrategies
    \/ StartEventLoop
    \/ \E it \in Targets : ContextMenuEvent(it)
    \/ \E p \in Triggerable(menu) : Trigger(p)
    \/ Dismiss
    \/ ReturnRecorded
    \/ \E text \in Clips : ClipboardChange(text)

SpecTwice == Init /\ [][NextTwice]_vars

----------------------------------------------------------------------------
(* The SelectionContext variant (src/unnamed/part_001): commands take no   *)
(* context and read the process-wide selection                             *)

\* mutant: the item is appended to the selection that is there
setSelectedItemAppend(sel, it) ==
    IF it # NoItem THEN Append(sel, it) ELSE sel

\* SelectionContext::setSelectedItem: clear, then append a non-null item
setSelectedItem(sel, it) ==
    IF it # NoItem THEN <<it>> ELSE <<>>

\* the variant's addCommandAction(menu, text, cmd): no visibility or
\* enablement check, the lambda captures the command only
SelAction(text, cmd) ==
    [kind |-> "action", text |-> text, enabled |-> TRUE, cmd |-> cmd,
     ctx |-> NoCtx, sub |-> <<>>]

\* the variant's createMenu of a chain: every entry is bound to NullCommand
\* but BaseMenuDecorator's Copy
RECURSIVE SelCreateMenu(_)
SelCreateMenu(s) ==
    CASE s = <<>> -> NewQMenu
      [] s # <<>> /\ Head(s) = "TextItemMenuStrategy" ->
            <<SelAction("EditText", NullCommand),
              SelAction("ChangeFont", NullCommand)>>
      [] s # <<>> /\ Head(s) = "BackgroundMenuStrategy" ->
            <<SelAction("AddSlide", NullCommand),
              SelAction("Layout", NullCommand)>>
      [] s # <<>> /\ Head(s) = "NoBaseMenuStrategy" ->
            <<SelAction("OnlySpecial", NullCommand)>>
      [] s # <<>> /\ Head(s) = "CircleMenuStrategy" ->
            addMenu(<<SelAction("ChangeColor", NullCommand),
                      SelAction("ChangeSize", NullCommand)>>,
                    "ShapeProps",
                    <<SelAction("Rotate", NullCommand),
                      SelAction("Scale", NullCommand)>>)
      [] s # <<>> /\ Head(s) = "BaseMenuDecorator" ->
            addSeparator(SelCreateMenu(Tail(s)))
            \o <<SelAction("Copy", CopyCommand),
                 SelAction("Cut", NullCommand),
                 SelAction("Paste", NullCommand)>>
      [] s # <<>> /\ Head(s) = "PasteOnlyMenuDecorator" ->
            addSeparator(SelCreateMenu(Tail(s)))
            \o <<SelAction("Paste", NullCommand)>>

\* the variant's execute(): CopyCommand copies every item of the global
\* selection, in order; NullCommand does nothing
SelExecute(cmd, sel) ==
    IF cmd = CopyCommand
    THEN [i \in DOMAIN sel |-> [cls |-> "copy", ctx |-> sel[i]]]
    ELSE <<>>

\* part_001 lines 308-336 up to menu->exec
SelContextMenuEvent(it) ==
    /\ pc = "idle"
    /\ item' = it
    /\ selectedItems' = IF it # NoItem /\ IsBaseCustomItem(it)
                        THEN setSelectedItem(selectedItems, it)
                        ELSE selectedItems
    /\ lastTyped' = IF it # NoItem /\ IsBaseCustomItem(it)
                    THEN it ELSE lastTyped
    /\ chosen' = <<>>
    /\ triggered' = <<>>
    /\ effects' = <<>>
    /\ LET s == ItemStrategy(creators, it)
           d == create(creators, FallbackKey)
       IN  IF s # NoStrategy
           THEN /\ pc' = "exec_item"
                /\ strategy' = s
                /\ menu' = SelCreateMenu(s)
                /\ presented' = 1
                /\ defaultHandled' = FALSE
                /\ outcome' = "menu shown"
           ELSE IF d # NoStrategy
           THEN /\ pc' = "exec_default"
                /\ strategy' = d
                /\ menu' = SelCreateMenu(d)
                /\ presented' = 1
                /\ defaultHandled' = FALSE
                /\ outcome' = "menu shown"
           ELSE /\ pc' = "idle"
                /\ strategy' = NoStrategy
                /\ menu' = NewQMenu
                /\ presented' = 0
                /\ defaultHandled' = TRUE
                /\ outcome' = "no menu"
    /\ UNCHANGED <<creators, nreg, clipboard, ctx, clipAtBuild, added, regs,
                   asked, composite, children, last>>
    /\ UNCHANGED heapVars

\* the user selects an entry: cmd->execute() runs, then exec returns
SelTrigger(path) ==
    /\ InExec
    /\ path \in Triggerable(menu)
    /\ chosen' = path
    /\ triggered' = <<[cmd |-> EntryAt(menu, path).cmd, ctx |-> NoCtx]>>
    /\ effects' = SelExecute(EntryAt(menu, path).cmd, selectedItems)
    /\ pc' = Closed(pc)
    /\ UNCHANGED <<creators, nreg, clipboard, item, strategy, ctx, menu,
                   clipAtBuild, presented, defaultHandled, outcome, added>>
    /\ UNCHANGED heapVars
    /\ UNCHANGED aloneVars

\* delete menu; return
SelReturn ==
    /\ pc \in {"closed_item", "closed_default"}
    /\ pc' = "idle"
    /\ strategy' = NoStrategy
    /\ menu' = NewQMenu
    /\ chosen' = <<>>
    /\ triggered' = <<>>
    /\ effects' = <<>>
    /\ UNCHANGED <<creators, nreg, clipboard, item, ctx, clipAtBuild,
                   presented, defaultHandled, outcome, added>>
    /\ UNCHANGED heapVars
    /\ UNCHANGED aloneVars

NextSelection ==
    \/ \E t \in TypeIds, c \in ShippedCreators : RegisterCreator(t, c)
    \/ RegisterMenuStrategies
    \/ StartEventLoop
    \/ \E it \in Targets : SelContextMenuEvent(it)
    \/ \E p \in Triggerable(menu) : SelTrigger(p)
    \/ Dismiss
    \/ SelReturn

SpecSelection == Init /\ [][NextSelection]_vars

----------------------------------------------------------------------------
(* Properties of the dispatch (Spec) *)

InMenu == pc \in {"exec_item", "exec_default", "closed_item", "closed_default"}
InItemMenu == pc \in {"exec_item", "closed_item"}
InDefaultMenu == pc \in {"exec_default", "closed_default"}

\* the request's point is over an object that exposes a type identifier for
\* which the registry holds a creator
TypedHit == item \in BaseItems /\ objectType(item) \in DOMAIN creators

\* the request's point is over an object whose identifier is unregistered
UnregisteredHit == item \in BaseItems /\ objectType(item) \notin DOMAIN creators

\* every CommandContext captured by the lambdas of a menu's entries
RECURSIVE MenuContexts(_)
MenuContexts(m) ==
    IF m = <<>> THEN {}
    ELSE (IF Head(m).kind = "action" THEN {Head(m).ctx} ELSE {})
         \cup MenuContexts(Head(m).sub) \cup MenuContexts(Tail(m))

\* a menu without the contexts its lambdas captured: kind, label, enabled
\* flag and command of every entry, sub-menus included
RECURSIVE Shape(_)
Shape(m) ==
    IF m = <<>> THEN <<>>
    ELSE <<[kind |-> Head(m).kind, text |-> Head(m).text,
            enabled |-> Head(m).enabled, cmd |-> Head(m).cmd,
            sub |-> Shape(Head(m).sub)]>> \o Shape(Tail(m))

(* C1: for every request, if an object exposing a type identifier is under
   the point and the registry holds a strategy for that identifier, the menu
   is built by that strategy; otherwise, if "Background" is registered, the
   menu is built by the Background strategy; otherwise no menu is built and
   the scene's default handling is invoked. *)
C1_FallbackChain ==
    /\ InMenu =>
         IF TypedHit
         THEN /\ InItemMenu
              /\ strategy = creators[objectType(item)]
              /\ menu = createMenu(creators[objectType(item)], ctx, clipAtBuild)
         ELSE /\ InDefaultMenu
              /\ "Background" \in DOMAIN creators
              /\ strategy = creators["Background"]
              /\ menu = createMenu(creators["Background"], ctx, clipAtBuild)
    /\ (pc = "idle" /\ outcome # "none") =>
         IF TypedHit \/ "Background" \in DOMAIN creators
         THEN outcome = "menu shown" /\ ~defaultHandled
         ELSE outcome = "no menu" /\ defaultHandled /\ menu = NewQMenu
    /\ defaultHandled => (~TypedHit /\ "Background" \notin DOMAIN creators)

\* a typed object whose identifier is unregistered, Background unregistered
\* too while another identifier is registered: the default handling ran
C1_Witness ==
    /\ pc = "idle"
    /\ outcome = "no menu"
    /\ defaultHandled
    /\ UnregisteredHit
    /\ "TextItem" \in DOMAIN creators

(* C2: every request ends in exactly one of the outcomes "menu shown" and
   "no menu": at most one menu is presented within one dispatch (never the
   type-specific menu and then the Background menu), the default handling is
   invoked if and only if no menu was presented, and a dispatch that has
   begun reaches its end once the user has closed the menu. *)
C2_OutcomeSafety ==
    /\ presented <= 1
    /\ InMenu => (presented = 1 /\ outcome = "menu shown" /\ ~defaultHandled)
    /\ (pc = "idle" /\ outcome # "none") =>
         \/ outcome = "menu shown" /\ presented = 1 /\ ~defaultHandled
         \/ outcome = "no menu" /\ presented = 0 /\ defaultHandled
    /\ (pc \in {"startup", "idle"} /\ outcome = "none") =>
         (presented = 0 /\ ~defaultHandled)

C2_ExactlyOneOutcome ==
    /\ []C2_OutcomeSafety
    /\ InMenu ~> (pc = "idle" /\ outcome = "menu shown")

\* a request on a registered typed object has ended with its one menu shown
\* although the Background strategy was registered as well
C2_Witness ==
    /\ pc = "idle"
    /\ outcome = "menu shown"
    /\ presented = 1
    /\ TypedHit
    /\ "Background" \in DOMAIN creators

(* C3: for any registry and clipboard state, a dispatch on an object whose
   type identifier is unregistered yields the same menu (entries, order,
   enabled flags) as a dispatch at a point with no object under the same
   registry and clipboard: both are built by the "Background" strategy. *)
C3_UnregisteredLikeNoObject ==
    (InMenu /\ UnregisteredHit) =>
        /\ Dispatch(creators, NoItem, clipAtBuild).at = "exec_default"
        /\ Shape(menu) = Shape(Dispatch(creators, NoItem, clipAtBuild).menu)
        /\ "Background" \in DOMAIN creators
        /\ strategy = creators["Background"]

\* a Circle object with "Circle" unregistered and "TextItem" registered is
\* shown the Background menu
C3_Witness ==
    /\ pc = "exec_default"
    /\ item = "item3"
    /\ "Circle" \notin DOMAIN creators
    /\ "TextItem" \in DOMAIN creators
    /\ menu # NewQMenu

(* C4: whenever a dispatch finds an object and the registry returns a
   strategy for its type identifier, the CommandContext handed to createMenu
   and to every command executed in that dispatch has a selection equal to
   the one-element sequence holding that object. *)
C4_SelectionIsTheObject ==
    InItemMenu =>
        /\ Selection(ctx) = <<item>>
        /\ \A c \in MenuContexts(menu) : Selection(c) = <<item>>
        /\ \A i \in DOMAIN triggered : Selection(triggered[i].ctx) = <<item>>
        /\ \A i \in DOMAIN effects : Selection(effects[i].ctx) = <<item>>

\* CopyCommand ran in a dispatch on the Circle object
C4_Witness ==
    /\ pc = "closed_item"
    /\ item = "item3"
    /\ \E i \in DOMAIN effects :
          /\ effects[i].cls = "CopyCommand"
          /\ Selection(effects[i].ctx) = <<"item3">>

(* C5: within one dispatch, selecting a presented entry executes that
   entry's bound command exactly once, with the CommandContext the menu was
   built with; dismissing the menu executes no command; so at most one
   entry's command runs per request and no command of another entry. *)
C5_OneCommandPerDispatch ==
    /\ Len(triggered) <= 1
    /\ ~(pc \in {"closed_item", "closed_default"}) =>
          (chosen = <<>> /\ triggered = <<>> /\ effects = <<>>)
    /\ (pc \in {"closed_item", "closed_default"} /\ chosen = <<>>) =>
          (triggered = <<>> /\ effects = <<>>)
    /\ (pc \in {"closed_item", "closed_default"} /\ chosen # <<>>) =>
          /\ chosen \in Triggerable(menu)
          /\ triggered = <<[cmd |-> EntryAt(menu, chosen).cmd, ctx |-> ctx]>>
          /\ effects = execute(EntryAt(menu, chosen).cmd, ctx)

\* the composite of the Circle sub-menu's first entry was selected and ran
\* its two children
C5_Witness ==
    /\ pc = "closed_item"
    /\ Len(chosen) = 2
    /\ Len(triggered) = 1
    /\ Len(effects) = 2

\* the event thread is never left blocked: the user closes a presented menu
\* (selects an entry or dismisses it), and the handler then returns
SpecLive ==
    /\ Spec
    /\ WF_vars(Dismiss \/ \E p \in Triggerable(menu) : Trigger(p))
    /\ WF_vars(Return)

----------------------------------------------------------------------------
(* Properties of menu construction (SpecMenu) *)

\* the entry of a visible command: label, flag, lambda of command and context
Entry(text, cmd, en, c) ==
    [kind |-> "action", text |-> text, enabled |-> en, cmd |-> cmd,
     ctx |-> c, sub |-> <<>>]

Boundary ==
    [kind |-> "separator", text |-> "", enabled |-> TRUE, cmd |-> NullPtr,
     ctx |-> NoCtx, sub |-> <<>>]

\* the fixed entries of a decorator, in its fixed order
FixedEntries(d, c, clip) ==
    IF d = "BaseMenuDecorator"
    THEN <<Entry("Copy", CopyCommand, TRUE, c),
           Entry("Cut", NullCommand, TRUE, c),
           Entry("Paste", PasteCommand, clip # "", c)>>
    ELSE <<Entry("Paste", NullCommand, TRUE, c)>>

(* C6: for a decorator D wrapping any strategy S, createMenu of D(S) is
   createMenu(S), then one boundary marker, then D's fixed entries in D's
   fixed order; when D wraps no strategy the result is the empty menu
   followed by the boundary and D's entries. *)
C6_DecoratorAppends ==
    (pc = "built" /\ Head(strategy) \in Decorators) =>
        menu = (IF Tail(strategy) = NoStrategy
                THEN <<>>
                ELSE createMenu(Tail(strategy), ctx, clipAtBuild))
               \o <<Boundary>>
               \o FixedEntries(Head(strategy), ctx, clipAtBuild)

\* BaseMenuDecorator around PasteOnlyMenuDecorator around nothing: the inner
\* menu starts with a boundary, the outer section ends the menu
C6_Witness ==
    /\ pc = "built"
    /\ strategy = <<"BaseMenuDecorator", "PasteOnlyMenuDecorator">>
    /\ Len(menu) = 6
    /\ menu[1].kind = "separator"
    /\ menu[3].kind = "separator"

\* the calls of a builder whose command is visible, and those whose command
\* is hidden
VisibleCall(a) ==
    /\ a.cmd # NullPtr
    /\ (a.cmd.cls = "UserCommand" => a.cmd.visible)
HiddenCall(a) ==
    /\ a.cmd # NullPtr
    /\ a.cmd.cls = "UserCommand"
    /\ ~a.cmd.visible

Builder == pc = "fn" /\ strategy = NoStrategy

(* C8: for every entry added while building a menu, if the bound command's
   isVisible(ctx) is false at build time the entry is absent from the menu's
   entry list (not present in disabled form), and every entry whose
   command's isVisible(ctx) is true is present. *)
C8_VisibilityFilter ==
    Builder =>
        LET shown == SelectSeq(added, VisibleCall)
        IN  /\ Len(menu) = Len(shown)
            /\ \A i \in DOMAIN menu :
                  /\ menu[i].kind = "action"
                  /\ menu[i].text = shown[i].text
                  /\ menu[i].cmd = shown[i].cmd
                  /\ menu[i].ctx = ctx
            /\ \A i \in DOMAIN menu : isVisible(menu[i].cmd, ctx)

\* a hidden command and then a visible one were added: one entry exists
C8_Witness ==
    /\ Builder
    /\ Len(added) = 2
    /\ HiddenCall(added[1])
    /\ VisibleCall(added[2])
    /\ Len(menu) = 1
    /\ menu[1].cmd = added[2].cmd

\* what the command of a call answers to isEnable with the clipboard of the
\* call
EnabledCall(a) ==
    CASE a.cmd.cls = "PasteCommand" -> a.clip # ""
      [] a.cmd.cls = "UserCommand" -> a.cmd.enable
      [] OTHER -> TRUE

(* C9: an entry whose command reports isVisible = true and isEnable = false
   at build time appears in the menu and is marked non-actionable; the
   enabled flag of every present entry is the value of its command's
   isEnable(ctx) at build time, independently of visibility. *)
C9_EnabledFlag ==
    Builder =>
        LET shown == SelectSeq(added, VisibleCall)
        IN  /\ Len(menu) = Len(shown)
            /\ \A i \in DOMAIN menu : menu[i].enabled = EnabledCall(shown[i])
            /\ \A i \in DOMAIN menu :
                  ~menu[i].enabled => <<i>> \notin Triggerable(menu)

\* a visible, disabled command and PasteCommand on an empty clipboard are
\* both in the menu, disabled
C9_Witness ==
    /\ Builder
    /\ Len(menu) = 2
    /\ menu[1].cmd = UserCommand(TRUE, FALSE)
    /\ ~menu[1].enabled
    /\ menu[2].cmd = PasteCommand
    /\ ~menu[2].enabled

----------------------------------------------------------------------------
(* Properties of the shipped strategies (Spec) *)

\* kind and label of every entry, sub-menus included
RECURSIVE Outline(_)
Outline(m) ==
    IF m = <<>> THEN <<>>
    ELSE <<[kind |-> Head(m).kind, text |-> Head(m).text,
            sub |-> Outline(Head(m).sub)]>> \o Outline(Tail(m))

Line(kind, text) == [kind |-> kind, text |-> text, sub |-> <<>>]

(* C7: with "Circle" registered as BaseMenuDecorator(CircleMenuStrategy), a
   dispatch on a Circle object yields, in this order: the two Circle entries,
   the sub-menu with its two entries, one boundary, then Copy, Cut, Paste in
   the top-level menu (not inside the sub-menu). *)
C7_CircleMenu ==
    (/\ InItemMenu
     /\ item = "item3"
     /\ strategy = <<"BaseMenuDecorator", "CircleMenuStrategy">>) =>
        Outline(menu) =
            <<Line("action", "ChangeColor"),
              Line("action", "ChangeSize"),
              [kind |-> "menu", text |-> "ShapeProps",
               sub |-> <<Line("action", "Rotate"), Line("action", "Scale")>>],
              Line("separator", ""),
              Line("action", "Copy"),
              Line("action", "Cut"),
              Line("action", "Paste")>>

\* the shipped registration is in place and the Circle object's menu is shown
C7_Witness ==
    /\ pc = "exec_item"
    /\ item = "item3"
    /\ "Circle" \in DOMAIN creators
    /\ creators["Circle"] = <<"BaseMenuDecorator", "CircleMenuStrategy">>
    /\ Len(menu) = 7

\* the entries of a menu with a given label, sub-menus included
RECURSIVE EntriesNamed(_, _)
EntriesNamed(m, text) ==
    IF m = <<>> THEN {}
    ELSE (IF Head(m).kind = "action" /\ Head(m).text = text
          THEN {Head(m)} ELSE {})
         \cup EntriesNamed(Head(m).sub, text) \cup EntriesNamed(Tail(m), text)

(* C10: with an empty clipboard, a dispatch that resolves to the Background
   strategy yields a menu whose "Paste" entry is disabled; once the clipboard
   holds text, a fresh dispatch on Background yields it enabled: the flag
   follows the clipboard state of each dispatch. *)
C10_BackgroundPasteFollowsClipboard ==
    (/\ InDefaultMenu
     /\ strategy = <<"PasteOnlyMenuDecorator", "BackgroundMenuStrategy">>) =>
        /\ EntriesNamed(menu, "Paste") # {}
        /\ \A e \in EntriesNamed(menu, "Paste") :
              e.enabled = (clipAtBuild # "")

----------------------------------------------------------------------------
(* Null and absent commands (SpecMenu) *)

\* a call as it would be had NullCommand been passed in place of a null
\* command
AsIfNullCommand(a) ==
    [a EXCEPT !.cmd = IF @ = NullPtr THEN NullCommand ELSE @]

\* the call yields an entry if a null command counts as NullCommand
VisibleAsIfNullCommand(a) == VisibleCall(AsIfNullCommand(a))

(* C11, as stated: an entry added with an absent (null) command is treated
   exactly as if NullCommand had been bound to it: the built menu is the
   same as when the entry is added with NullCommand. *)
C11_NullLikeNullCommand ==
    Builder =>
        LET shown == SelectSeq(added, VisibleAsIfNullCommand)
        IN  /\ Len(menu) = Len(shown)
            /\ \A i \in DOMAIN menu :
                  /\ menu[i].text = shown[i].text
                  /\ menu[i].cmd = AsIfNullCommand(shown[i]).cmd

(* What addCommandAction does instead (line 217): a call that passes a null
   command adds no entry and raises no fault; only the overload that takes
   no command binds NullCommand: its entry is present, enabled, and
   selecting it runs only NullCommand's empty execute. *)
NullOmittedAbsentNullCommand ==
    Builder =>
        LET shown == SelectSeq(added, VisibleCall)
        IN  /\ Len(menu) = Len(shown)
            /\ \A i \in DOMAIN menu : menu[i].cmd # NullPtr
            /\ \A i \in DOMAIN menu :
                  ~shown[i].given =>
                      /\ menu[i] = Entry(shown[i].text, NullCommand, TRUE, ctx)
                      /\ <<i>> \in Triggerable(menu)
                      /\ RunCalls(Lambda(menu[i]))
                            = <<[cls |-> "NullCommand", ctx |-> ctx]>>

\* a null command was passed, then the overload without a command was
\* called: the menu holds the second call's entry only
NullOmittedWitness ==
    /\ Builder
    /\ Len(added) = 2
    /\ added[1].given
    /\ added[1].cmd = NullPtr
    /\ ~added[2].given
    /\ Len(menu) = 1
    /\ menu[1].cmd = NullCommand
    /\ menu[1].text = added[2].text

----------------------------------------------------------------------------
(* Properties of CompositeCommand (SpecCommand) *)

Ran == pc \in {"ran_added", "ran_combined"}

\* the execute(c) call a leaf child receives
ChildCall(cmd, c) == [cls |-> cmd.cls, ctx |-> c]

PresentChild(cmd) == cmd # NullPtr

(* C12: CompositeCommand.execute(ctx) invokes its children's execute(ctx) in
   insertion order, each child exactly once and with the same ctx, the first
   completing before the second starts, whether the composite was built with
   addCommand or with CommandUtils::combineCommands. *)
C12_ChildrenInInsertionOrder ==
    (Ran /\ \A i \in DOMAIN children : PresentChild(children[i])) =>
        /\ Len(effects) = Len(children)
        /\ \A i \in DOMAIN children :
              effects[i] = ChildCall(children[i], ctx)

\* combineCommands({CustomCommand1, CustomCommand2}) was executed: the two
\* children ran, CustomCommand1 first
C12_Witness ==
    /\ pc = "ran_combined"
    /\ children = <<CustomCommand1, CustomCommand2>>
    /\ effects = <<ChildCall(CustomCommand1, ctx),
                   ChildCall(CustomCommand2, ctx)>>

(* C13: a CompositeCommand given a missing (null) child skips only that
   child: every non-null child is still executed, in the relative order in
   which it was added, and execution stops only at the end of the sequence;
   a composite of only null children executes nothing. *)
C13_NullChildSkipped ==
    Ran =>
        LET present == SelectSeq(children, PresentChild)
        IN  /\ Len(effects) = Len(present)
            /\ \A i \in DOMAIN present :
                  effects[i] = ChildCall(present[i], ctx)
            /\ (present = <<>>) => (effects = <<>>)

\* a null child between two commands: both commands ran, in order
C13_Witness ==
    /\ pc = "ran_combined"
    /\ children = <<CustomCommand1, NullPtr, CustomCommand2>>
    /\ effects = <<ChildCall(CustomCommand1, ctx),
                   ChildCall(CustomCommand2, ctx)>>

----------------------------------------------------------------------------
(* Properties of the MenuStrategyFactory (SpecRegistry) *)

\* the positions of the registrations made for identifier t
RegisteredAt(log, t) == {i \in DOMAIN log : log[i].type = t}

\* what the creator most recently registered for t returns; NoStrategy when
\* t was never registered
LastRegistered(log, t) ==
    IF RegisteredAt(log, t) = {}
    THEN NoStrategy
    ELSE log[CHOOSE i \in RegisteredAt(log, t) :
                \A j \in RegisteredAt(log, t) : j <= i].creator

(* C14: for every identifier t and any sequence of registrations, create(t)
   returns the result of invoking the factory most recently registered for
   t: re-registering t replaces the earlier factory, and registering another
   identifier u # t does not change what create(t) returns. *)
C14_LastRegistrationWins ==
    pc = "registry" =>
        /\ \A t \in TypeIds : create(creators, t) = LastRegistered(regs, t)
        /\ asked # "none" => strategy = LastRegistered(regs, asked)

\* TextItem was registered twice with different creators and looked up
C14_Witness ==
    /\ pc = "registry"
    /\ Len(regs) = 2
    /\ regs[1].type = "TextItem"
    /\ regs[2].type = "TextItem"
    /\ regs[1].creator # regs[2].creator
    /\ asked = "TextItem"
    /\ strategy = regs[2].creator

(* C15: create(t) for an identifier t that was never registered returns
   absent (no strategy) and raises no error, in every registry state
   including the empty registry; the lookup adds nothing to the registry. *)
C15_UnregisteredIsAbsent ==
    (pc = "registry" /\ asked # "none" /\ RegisteredAt(regs, asked) = {}) =>
        /\ strategy = NoStrategy
        /\ asked \notin DOMAIN creators
        /\ DOMAIN creators = {regs[i].type : i \in DOMAIN regs}

\* Background is registered and Circle, never registered, is looked up
C15_Witness ==
    /\ pc = "registry"
    /\ "Background" \in DOMAIN creators
    /\ asked = "Circle"
    /\ RegisteredAt(regs, "Circle") = {}
    /\ strategy = NoStrategy

----------------------------------------------------------------------------
(* Exact-match lookup and undecorated strategies (Spec) *)

(* C16: strategy lookup is exact-match on the object's own type identifier
   with no inheritance-based fallback: a Circle object (whose class derives
   from the TextItem class) is resolved with key "Circle" only, so with
   "Circle" unregistered and "TextItem" registered the dispatch uses the
   Background strategy, never the TextItem strategy. *)
C16_ExactMatchNoInheritance ==
    (item = "item3" /\ "Circle" \notin DOMAIN creators
                    /\ "TextItem" \in DOMAIN creators) =>
        /\ ~InItemMenu
        /\ InMenu =>
              /\ "Background" \in DOMAIN creators
              /\ strategy = creators["Background"]
              /\ ctx = NewContext
              /\ menu = createMenu(creators["Background"], NewContext,
                                   clipAtBuild)
        /\ (pc = "idle" /\ "Background" \notin DOMAIN creators) =>
              (outcome = "no menu" /\ defaultHandled)

\* TextItem and Background are registered as shipped, Circle is not, and
\* the request is over the circle: the Background menu is presented
C16_Witness ==
    /\ pc = "exec_default"
    /\ item = "item3"
    /\ DOMAIN creators = {"TextItem", "Background"}
    /\ creators["TextItem"] = TextItemCreator
    /\ creators["Background"] = BackgroundCreator
    /\ strategy = BackgroundCreator
    /\ menu # createMenu(TextItemCreator, ItemContext("item3"), clipAtBuild)

\* the separators of a menu, sub-menus included
RECURSIVE Separators(_)
Separators(m) ==
    IF m = <<>> THEN 0
    ELSE (IF Head(m).kind = "separator" THEN 1 ELSE 0)
         + Separators(Head(m).sub) + Separators(Tail(m))

SharedTexts == {"Copy", "Cut", "Paste"}

(* C17: a strategy registered without a decorator yields a menu containing
   only its own entries, with no boundary marker and no shared
   (Copy/Cut/Paste) entry: a dispatch on a "Special" object yields exactly
   the one entry of NoBaseMenuStrategy. *)
C17_UndecoratedOwnEntriesOnly ==
    /\ (InMenu /\ strategy = <<"NoBaseMenuStrategy">>) =>
          /\ Separators(menu) = 0
          /\ \A t \in SharedTexts : EntriesNamed(menu, t) = {}
    /\ (/\ InItemMenu
        /\ item = "item2"
        /\ creators["Special"] = <<"NoBaseMenuStrategy">>) =>
          /\ Outline(menu) = <<Line("action", "OnlySpecial")>>
          /\ menu[1].cmd.cls = "CompositeCommand"
          /\ menu[1].cmd.commands = <<CustomCommand1, CustomCommand2>>

\* the registry is the shipped one and the request is over the Special
\* object: its menu has one entry
C17_Witness ==
    /\ pc = "exec_item"
    /\ item = "item2"
    /\ creators = registerMenuStrategies(EmptyMap)
    /\ strategy = SpecialCreator
    /\ Len(menu) = 1
    /\ menu[1].text = "OnlySpecial"

----------------------------------------------------------------------------
(* Enablement at execution time (Spec) *)

(* C18: enablement is not re-checked at execution time: triggering an entry
   calls its command's execute without evaluating isEnable again, and since
   the presentation layer refuses selection of disabled entries, no command
   whose entry was built disabled is executed in that dispatch. *)
C18_EnablementFixedAtBuild ==
    /\ InExec =>
          \A p \in Triggerable(menu) :
              isEnable(EntryAt(menu, p).cmd, EntryAt(menu, p).ctx, clipAtBuild)
    /\ (pc \in {"closed_item", "closed_default"} /\ chosen # <<>>) =>
          LET e == EntryAt(menu, chosen)
          IN  /\ e.enabled
              /\ isEnable(e.cmd, e.ctx, clipAtBuild)
              /\ triggered = <<[cmd |-> e.cmd, ctx |-> e.ctx]>>
              /\ effects = execute(e.cmd, e.ctx)

\* Paste was built enabled, the clipboard was emptied while the menu was
\* shown, and Paste was triggered: PasteCommand ran although its isEnable
\* is false by then
C18_Witness ==
    /\ pc = "closed_item"
    /\ chosen # <<>>
    /\ EntryAt(menu, chosen).cmd = PasteCommand
    /\ clipAtBuild = "text"
    /\ clipboard = ""
    /\ ~isEnable(PasteCommand, ctx, clipboard)
    /\ effects = <<[cls |-> "PasteCommand", ctx |-> ctx]>>

----------------------------------------------------------------------------
(* The event thread and the lifetime of a dispatch's objects (Spec) *)

\* the step presents a menu: the handler blocks in menu->exec
PresentsMenu == pc' \in {"exec_item", "exec_default"} /\ pc' # pc

(* C19: presenting a menu blocks the event thread: while a menu of one
   dispatch is presented no other context-menu request is processed, so
   dispatches never overlap and the command of the selected entry runs
   before any later dispatch begins. *)
C19_DispatchesNeverOverlap ==
    /\ [](depth = IF InMenu THEN 1 ELSE 0)
    /\ [](triggered # <<>> =>
            /\ pc \in {"closed_item", "closed_default"}
            /\ depth = 1
            /\ triggered = <<[cmd |-> EntryAt(menu, chosen).cmd,
                              ctx |-> ctx]>>)
    /\ [][PresentsMenu =>
            /\ pc = "idle"
            /\ depth = 0
            /\ triggered = <<>>
            /\ effects = <<>>]_vars

\* a menu was presented and its selected entry's command ran; the handler
\* of that dispatch is the only one on the event thread's stack
C19_Witness ==
    /\ pc = "closed_item"
    /\ chosen # <<>>
    /\ effects # <<>>
    /\ depth = 1
    /\ presented = 1

(* C20: after a dispatch completes (the triggered command returned, or the
   menu was dismissed), the menu, its entries and the CommandContext of that
   dispatch are discarded on every path: no command can later be executed
   with that dispatch's context, and each later dispatch builds a new
   context rather than reusing an earlier one. *)
C20_DispatchObjectsDiscarded ==
    /\ [](pc = "idle" =>
            /\ menu = NewQMenu
            /\ ctx = NoCtx
            /\ strategy = NoStrategy
            /\ Triggerable(menu) = {}
            /\ triggered = <<>>)
    /\ [](liveCtx = IF InMenu THEN 1 ELSE 0)
    /\ [](InMenu => MenuContexts(menu) \subseteq {ctx})
    /\ [][PresentsMenu =>
            /\ liveCtx = 0
            /\ liveCtx' = 1
            /\ ctx' \in {NewContext, ItemContext(item')}]_vars

\* a dispatch presented a menu and has returned: nothing of it is left
C20_Witness ==
    /\ pc = "idle"
    /\ outcome = "menu shown"
    /\ presented = 1
    /\ liveCtx = 0
    /\ menu = NewQMenu
    /\ ctx = NoCtx

----------------------------------------------------------------------------
(* Flags of a presented menu (Spec) *)

\* the paths of the action entries of a menu, sub-menus included
ActionPaths(m) ==
    {<<i>> : i \in {k \in DOMAIN m : m[k].kind = "action"}}
    \cup UNION {{<<i, j>> : j \in {k \in DOMAIN m[i].sub :
                                     m[i].sub[k].kind = "action"}}
                : i \in {k \in DOMAIN m : m[k].kind = "menu"}}

\* the entries whose command answered isEnable true when the menu was built
EnabledAtBuild(m, clip) ==
    {p \in ActionPaths(m) :
        isEnable(EntryAt(m, p).cmd, EntryAt(m, p).ctx, clip)}

(* C21: the visible and enabled flags of every entry are evaluated once,
   when the menu is built, and not again while the menu is presented: a
   change of the clipboard between menu construction and the user's
   selection does not change which entries of the presented menu are shown
   or enabled. *)
C21_FlagsFixedWhilePresented ==
    /\ [](InMenu => menu = createMenu(strategy, ctx, clipAtBuild))
    /\ [](InExec => Triggerable(menu) = EnabledAtBuild(menu, clipAtBuild))
    /\ [][(InExec /\ clipboard' # clipboard) =>
            /\ menu' = menu
            /\ pc' = pc
            /\ clipAtBuild' = clipAtBuild]_vars

\* a menu built on an empty clipboard is still presented after the
\* clipboard got text: its Paste entry, bound to PasteCommand, is disabled
C21_Witness ==
    /\ pc = "exec_item"
    /\ clipAtBuild = ""
    /\ clipboard = "text"
    /\ \E e \in EntriesNamed(menu, "Paste") :
          e.cmd = PasteCommand /\ ~e.enabled
    /\ isEnable(PasteCommand, ctx, clipboard)

----------------------------------------------------------------------------
(* Two dispatches compared (SpecTwice) *)

(* C22: menu construction is deterministic and uses a fresh strategy per
   dispatch: two dispatches on targets with the same type identifier, under
   the same registry and the same clipboard state, yield identical menus
   (same entries, order, boundaries and enabled flags), and the first
   dispatch leaves nothing behind that changes the second. *)
C22_SameInputsSameMenu ==
    /\ (InMenu /\ last.key = KeyOf(item) /\ last.clip = clipAtBuild) =>
          Shape(menu) = Shape(last.menu)
    /\ InMenu =>
          Shape(menu) = Shape(createMenu(strategy, NewContext, clipAtBuild))
    /\ InItemMenu => strategy = create(creators, KeyOf(item))
    /\ InDefaultMenu => strategy = create(creators, FallbackKey)

\* the Circle menu is presented again, on the same clipboard text as in the
\* dispatch that returned before it
C22_Witness ==
    /\ pc = "exec_item"
    /\ item = "item3"
    /\ last.key = "Circle"
    /\ last.clip = clipAtBuild
    /\ Len(last.menu) > 1
    /\ Shape(menu) = Shape(last.menu)

----------------------------------------------------------------------------
(* Decorator chains as section builders (SpecMenu) *)

\* the sections of a chain applied from the root outwards: the root's
\* entries, then for each decorator, innermost first, a boundary and its
\* fixed entries
RECURSIVE Sections(_, _, _)
Sections(chain, c, clip) ==
    IF chain = <<>> THEN <<>>
    ELSE IF Head(chain) \in Roots
         THEN createMenu(<<Head(chain)>>, c, clip)
         ELSE Sections(Tail(chain), c, clip)
              \o <<Boundary>> \o FixedEntries(Head(chain), c, clip)

(* C23: a decorator chain is equivalent to a list of menu section builders
   applied in sequence from the root outwards: for decorators D1, D2 and a
   root strategy S, createMenu of D2(D1(S)) equals createMenu(S), a
   boundary, D1's entries, a boundary, D2's entries, in that order, for
   every combination of BaseMenuDecorator and PasteOnlyMenuDecorator. *)
C23_ChainIsSectionList ==
    /\ pc = "built" => menu = Sections(strategy, ctx, clipAtBuild)
    /\ (/\ pc = "built"
        /\ Len(strategy) = 3
        /\ strategy[1] \in Decorators
        /\ strategy[2] \in Decorators) =>
          menu = createMenu(<<strategy[3]>>, ctx, clipAtBuild)
                 \o <<Boundary>>
                 \o FixedEntries(strategy[2], ctx, clipAtBuild)
                 \o <<Boundary>>
                 \o FixedEntries(strategy[1], ctx, clipAtBuild)

\* PasteOnlyMenuDecorator around BaseMenuDecorator around the TextItem
\* strategy: two entries, boundary, Copy Cut Paste, boundary, Paste
C23_Witness ==
    /\ pc = "built"
    /\ strategy = <<"PasteOnlyMenuDecorator", "BaseMenuDecorator",
                    "TextItemMenuStrategy">>
    /\ Len(menu) = 8
    /\ menu[3].kind = "separator"
    /\ menu[4].text = "Copy"
    /\ menu[7].kind = "separator"
    /\ menu[8].text = "Paste"
    /\ menu[8].cmd = NullCommand

----------------------------------------------------------------------------
(* The registry after startup (Spec) *)

(* C24: once the startup registration pass has run, the registry is never
   changed again: no dispatch, no registry lookup (including create on an
   unregistered identifier), no menu construction and no command execution
   adds, removes or replaces a registry entry, so the registered
   identifiers are exactly TextItem, Background, Special and Circle in every
   reachable state. *)
C24_RegistryFrozenAfterStartup ==
    /\ [][pc # "startup" => creators' = creators]_vars
    /\ []((pc # "startup" /\ nreg = 0 /\ creators # EmptyMap) =>
            /\ creators = registerMenuStrategies(EmptyMap)
            /\ DOMAIN creators = TypeIds)

\* startup was the one registerMenuStrategies call; a request on the circle
\* looked its strategy up, built the menu and ran a command: the registry
\* is as registered
C24_Witness ==
    /\ pc = "closed_item"
    /\ item = "item3"
    /\ nreg = 0
    /\ effects # <<>>
    /\ DOMAIN creators = TypeIds
    /\ creators = registerMenuStrategies(EmptyMap)

\* the event loop runs on the registry registerMenuStrategies leaves
Shipped == pc # "startup" /\ creators = registerMenuStrategies(EmptyMap)

(* C25: in the shipped configuration (registry populated by
   registerMenuStrategies, which registers "Background"), every context-menu
   request, on any object or on empty canvas, eventually ends in "menu
   shown": the outcome "no menu" and the delegation to the scene's default
   handling are unreachable. *)
C25_ShippedAlwaysShowsMenu ==
    /\ [](Shipped => (outcome # "no menu" /\ ~defaultHandled))
    /\ [](Shipped => (InMenu \/ pc = "idle"))
    /\ [][(Shipped /\ item' # item) => InMenu']_vars
    /\ ((Shipped /\ InMenu) ~> (pc = "idle" /\ outcome = "menu shown"))

\* shipped registry, a request on empty canvas has returned: menu shown
C25_Witness ==
    /\ Shipped
    /\ pc = "idle"
    /\ item = NoItem
    /\ outcome = "menu shown"
    /\ presented = 1
    /\ ~defaultHandled

----------------------------------------------------------------------------
(* The context of the fallback branch (Spec) *)

\* a context with an empty selection and no scene reference
Bare(c) == Selection(c) = <<>> /\ c.scene = "nullptr" /\ c.extras = {}

(* C26: whenever a dispatch falls back to the Background strategy, the
   CommandContext it builds has an empty selection and no scene reference,
   also when an object was under the point but its type identifier was
   unregistered: that object is never part of the context given to the
   Background menu's commands. *)
C26_FallbackContextBare ==
    InDefaultMenu =>
        /\ Bare(ctx)
        /\ \A c \in MenuContexts(menu) : Bare(c)
        /\ \A i \in DOMAIN triggered : Bare(triggered[i].ctx)
        /\ \A i \in DOMAIN effects :
              /\ Bare(effects[i].ctx)
              /\ \A k \in DOMAIN Selection(effects[i].ctx) :
                    Selection(effects[i].ctx)[k] # item

\* an object of an unregistered type was under the point, the Background
\* menu was presented and one of its commands ran on a bare context
C26_Witness ==
    /\ pc = "closed_default"
    /\ item \in BaseItems
    /\ objectType(item) \notin DOMAIN creators
    /\ Len(effects) >= 1
    /\ Bare(effects[1].ctx)

----------------------------------------------------------------------------
(* Entries bound to a CompositeCommand (SpecMenu) *)

CompositeCall(a) == a.cmd.cls = "CompositeCommand"

\* the execute calls the children of a composite receive, in order
ChildCalls(cmd, c) ==
    [i \in DOMAIN cmd.commands |-> ChildCall(cmd.commands[i], c)]

(* C27: a CompositeCommand is always visible and always enabled, whatever
   its children report: an entry bound to a composite that contains a child
   whose isEnable(ctx) is false (for example PasteCommand with an empty
   clipboard) is shown enabled, and selecting it executes that child as
   well. *)
C27_CompositeAlwaysShownEnabled ==
    Builder =>
        LET shown == SelectSeq(added, VisibleCall)
        IN  /\ Len(menu) = Len(shown)
            /\ Len(SelectSeq(shown, CompositeCall))
                  = Len(SelectSeq(added, CompositeCall))
            /\ \A i \in DOMAIN menu :
                  CompositeCall(shown[i]) =>
                      /\ menu[i].cmd = shown[i].cmd
                      /\ menu[i].enabled
                      /\ <<i>> \in Triggerable(menu)
                      /\ RunCalls(Lambda(menu[i]))
                            = ChildCalls(shown[i].cmd, ctx)

\* the composite of PasteCommand was added on an empty clipboard: its entry
\* is enabled although PasteCommand's isEnable is false, and selecting it
\* runs PasteCommand
C27_Witness ==
    /\ Builder
    /\ Len(menu) >= 1
    /\ added[1].clip = ""
    /\ menu[1].cmd = addCommand(CompositeCommand, PasteCommand)
    /\ ~isEnable(PasteCommand, ctx, added[1].clip)
    /\ menu[1].enabled
    /\ RunCalls(Lambda(menu[1])) = <<ChildCall(PasteCommand, ctx)>>

----------------------------------------------------------------------------
(* Items that expose no type identifier (Spec) *)

(* C28: an object under the point that does not expose a type identifier
   (it is not a BaseCustomItem) is treated exactly like an empty point: the
   registry is not queried for it, and the dispatch yields the same menu
   and context as a dispatch with no object. *)
C28_PlainItemLikeEmptyPoint ==
    /\ \A p \in PlainItems :
          /\ ItemStrategy(creators, p) = NoStrategy
          /\ Dispatch(creators, p, clipboard)
                = Dispatch(creators, NoItem, clipboard)
          /\ creatorsAfterDispatch(creators, p)
                = creatorsAfterDispatch(creators, NoItem)
    /\ (InMenu /\ item \in PlainItems) =>
          /\ InDefaultMenu
          /\ strategy = create(creators, FallbackKey)
          /\ ctx = NewContext
          /\ menu = Dispatch(creators, NoItem, clipAtBuild).menu
    /\ (pc = "idle" /\ item \in PlainItems /\ outcome = "no menu") =>
          FallbackKey \notin DOMAIN creators

\* a plain item is under the point while TextItem and Background are
\* registered: the menu presented is the one of an empty point
C28_Witness ==
    /\ pc = "exec_default"
    /\ item \in PlainItems
    /\ "TextItem" \in DOMAIN creators
    /\ strategy = creators["Background"]
    /\ ctx = NewContext
    /\ menu = Dispatch(creators, NoItem, clipAtBuild).menu

----------------------------------------------------------------------------
(* The process-wide selection (SpecSelection) *)

\* the step is a request whose point is over a BaseCustomItem
TypedRequest ==
    /\ pc = "idle"
    /\ IsBaseCustomItem(item')
    /\ (pc' # "idle" \/ item' # item \/ outcome' # outcome)

(* C29: in the SelectionContext variant, a context-menu request that finds
   no typed object leaves the process-wide selection unchanged (it is not
   cleared), while a request on a typed object replaces the selection by
   exactly that object before the strategy lookup; so after any sequence of
   requests the global selection holds at most one object, the one of the
   most recent request that hit a typed object. *)
C29_SelectionIsLastTypedObject ==
    /\ [](Len(selectedItems) <= 1)
    /\ [](selectedItems = IF lastTyped = NoItem THEN <<>> ELSE <<lastTyped>>)
    /\ [][TypedRequest => selectedItems' = <<item'>>]_vars
    /\ [][~(pc = "idle" /\ IsBaseCustomItem(item')) =>
            selectedItems' = selectedItems]_vars
    /\ []((pc \in {"closed_item", "closed_default"} /\ chosen # <<>>
             /\ EntryAt(menu, chosen).cmd = CopyCommand) =>
            effects = [i \in DOMAIN selectedItems |->
                          [cls |-> "copy", ctx |-> selectedItems[i]]])

\* a request on empty canvas follows one on the text item: the Background
\* menu is presented and the selection still holds the text item
C29_Witness ==
    /\ pc = "exec_default"
    /\ item = NoItem
    /\ lastTyped = "item1"
    /\ selectedItems = <<"item1">>

=============================================================================
